---- MODULE Spec2Model ----
(***************************************************************************)
(* The expectation-matching engine of sqlmock (src/sqlmock.go): a session  *)
(* holds an insertion-ordered queue of expectation records; every driver   *)
(* call (Close, Begin, Commit, Rollback, Prepare, Exec, Query) scans the   *)
(* queue under per-record locks, claims at most one record and returns its *)
(* canned outcome or a mismatch error.                                     *)
(***************************************************************************)
EXTENDS Integers, Sequences, FiniteSets, TLC

\* ------------------------------------------------------------- bounds
\* Longest queue of declared expectations.
MaxQueue == 2
\* Most driver calls one goroutine issues.
MaxCalls == 2
\* Goroutines that dispatch concurrently in ConcSpec.
NumCallers == 2

\* --------------------------------------------------------------- data
Kinds == {"Close", "Begin", "Commit", "Rollback", "Prepare", "Exec", "Query"}
QueryKinds == {"Exec", "Query"}

\* Query texts and regular expressions are sequences of characters; " " is
\* whitespace.  A pattern is a literal: it matches when it occurs in the text.
NoText == << >>
Patterns == { <<"a">>, <<"a", " ", "b">> }
Queries == { <<"a">>, <<"a", " ", " ", "b">> }

\* driver.Value arguments.  NilArgs is an expectation without WithArgs.
NilArgs == << "nil" >>
NoArgs == << >>
ExpArgs == { <<"i1">> }
CallArgs == { <<"i1">>, <<"i2">> }

\* Canned errors, results and rows; "nil" is Go's nil.
Nil == "nil"
CannedErrs == {"errA"}
CannedResult == "result1"
CannedRows == "rows1"

\* A record of c.expected as its Expect method creates it.
NewExpectation(k, rx) ==
    [kind |-> k, sqlRegex |-> rx, args |-> NilArgs, err |-> Nil,
     result |-> Nil, triggered |-> FALSE]

\* A driver call, and what a handler returns: the error, the record the error
\* names, the "all expectations were already fulfilled" note, the result
\* value, and the record the call claimed.
NoCall == [kind |-> "none", args |-> NoArgs, query |-> NoText]
NoRet == [err |-> "none", named |-> 0, note |-> FALSE, res |-> Nil, rec |-> 0]

Callers == 1..NumCallers

VARIABLES
    phase,                  \* "setup" (declaring) or "dispatch" (test body)
    expected,               \* c.expected: the queue of expectation records
    mutex,                  \* holder of each record's sync.Mutex, 0 = free
    ordered,                \* c.ordered
    requireExpectations,    \* c.requireExpectations
    opened,                 \* c.opened
    registered,             \* c.dsn is a key of c.drv.conns
    drvMutex,               \* holder of c.drv's mutex, 0 = free
    pc,                     \* each goroutine's position in its handler
    call,                   \* each goroutine's current call: kind, query, args
    next,                   \* each goroutine's loop index into c.expected
    fulfilled,              \* each goroutine's local counter `fulfilled`
    claimed,                \* each goroutine's local `expected` (index, 0 = nil)
    ret,                    \* what each goroutine's last call returned
    ncalls,                 \* calls each goroutine has issued
    before,                 \* the triggered flags when the current call began
    verdict                 \* what the last ExpectationsWereMet returned

vars == << phase, expected, mutex, ordered, requireExpectations, opened,
           registered, drvMutex, pc, call, next, fulfilled, claimed, ret,
           ncalls, before, verdict >>

session == << expected, mutex, ordered, requireExpectations >>
registry == << opened, registered, drvMutex >>
locals == << pc, call, next, fulfilled, claimed, ret, ncalls, before >>

\* ------------------------------------------------------ pure functions

\* strings.TrimSpace
RECURSIVE TrimLeft(_)
TrimLeft(q) ==
    IF q # << >> /\ Head(q) = " " THEN TrimLeft(Tail(q)) ELSE q

RECURSIVE TrimRight(_)
TrimRight(q) ==
    IF q # << >> /\ q[Len(q)] = " " THEN TrimRight(SubSeq(q, 1, Len(q) - 1)) ELSE q

\* regexp `\s+` replaced by one space
RECURSIVE Collapse(_)
Collapse(q) ==
    IF Len(q) < 2 THEN q
    ELSE IF q[1] = " " /\ q[2] = " " THEN Collapse(Tail(q))
    ELSE << q[1] >> \o Collapse(Tail(q))

stripQuery(q) == Collapse(TrimRight(TrimLeft(q)))

\* e.sqlRegex.MatchString(sql) for a literal pattern
queryMatches(e, sql) ==
    \E i \in 1..(Len(sql) - Len(e.sqlRegex) + 1) :
        SubSeq(sql, i, i + Len(e.sqlRegex) - 1) = e.sqlRegex

\* The kind of a driver.Value: the letter its name starts with.
ValueKind(v) == IF v \in {"i1", "i2"} THEN "int" ELSE "string"

\* An expected argument that is a matcher whose Match method panics with a
\* value of its own.
BadMatcher == "m!"

\* e.argsMatches(args): "match", "mismatch", "fault" when the reflective
\* comparison meets an expected value of another representation than the
\* integer it was given (a *reflect.ValueError), or "panic" when a matcher
\* panics with something else.
argsCompare(e, args) ==
    IF e.args = NilArgs THEN "match"
    ELSE IF Len(args) # Len(e.args) THEN "mismatch"
    ELSE IF \E k \in 1..Len(args) :
                /\ \A j \in 1..(k - 1) : args[j] = e.args[j]
                /\ e.args[k] = BadMatcher
         THEN "panic"
    ELSE IF \E k \in 1..Len(args) :
                /\ \A j \in 1..(k - 1) : args[j] = e.args[j]
                /\ ValueKind(args[k]) = "int"
                /\ ValueKind(e.args[k]) # "int"
         THEN "fault"
    ELSE IF \A k \in 1..Len(args) : args[k] = e.args[k] THEN "match"
    ELSE "mismatch"

\* e.attemptMatch(sql, args): the predicate of the unordered scan
attemptMatch(e, sql, args) ==
    queryMatches(e, sql) /\ argsCompare(e, args) = "match"

\* next.fulfilled()
IsFulfilled(e) == e.triggered

\* ---------------------------------------------------------------- init

InitLocals ==
    /\ pc = [p \in Callers |-> "idle"]
    /\ call = [p \in Callers |-> NoCall]
    /\ next = [p \in Callers |-> 0]
    /\ fulfilled = [p \in Callers |-> 0]
    /\ claimed = [p \in Callers |-> 0]
    /\ ret = [p \in Callers |-> NoRet]
    /\ ncalls = [p \in Callers |-> 0]
    /\ before = [p \in Callers |-> << >>]
    /\ verdict = -1

\* The session as New() hands it to the test: an empty queue, one open
\* connection, registered under its dsn.
Init ==
    /\ phase = "setup"
    /\ expected = << >>
    /\ mutex = << >>
    /\ ordered = TRUE
    /\ requireExpectations \in BOOLEAN
    /\ opened = 1
    /\ registered = TRUE
    /\ drvMutex = 0
    /\ InitLocals

\* ------------------------------------------------------- declarations

Append1(e) ==
    /\ phase = "setup"
    /\ Len(expected) < MaxQueue
    /\ expected' = Append(expected, e)
    /\ mutex' = Append(mutex, 0)
    /\ UNCHANGED << phase, ordered, requireExpectations, registry,
                    locals, verdict >>

ExpectClose == Append1(NewExpectation("Close", NoText))

ExpectBegin == Append1(NewExpectation("Begin", NoText))

ExpectCommit == Append1(NewExpectation("Commit", NoText))

ExpectRollback == Append1(NewExpectation("Rollback", NoText))

ExpectPrepare == \E rx \in Patterns : Append1(NewExpectation("Prepare", rx))

ExpectExec == \E rx \in Patterns : Append1(NewExpectation("Exec", rx))

ExpectQuery == \E rx \in Patterns : Append1(NewExpectation("Query", rx))

MatchExpectationsInOrder ==
    /\ phase = "setup"
    /\ \E b \in BOOLEAN : ordered' = b
    /\ UNCHANGED << phase, expected, mutex, requireExpectations, registry,
                    locals, verdict >>

RequireExpectations ==
    /\ phase = "setup"
    /\ \E b \in BOOLEAN : requireExpectations' = b
    /\ UNCHANGED << phase, expected, mutex, ordered, registry,
                    locals, verdict >>

\* The builder methods of the record declared last.
Configure(e) ==
    /\ phase = "setup"
    /\ expected # << >>
    /\ expected' = [expected EXCEPT ![Len(expected)] = e]
    /\ UNCHANGED << phase, mutex, ordered, requireExpectations, registry,
                    locals, verdict >>

Last == expected[Len(expected)]

WillReturnError ==
    /\ expected # << >>
    /\ \E err \in CannedErrs : Configure([Last EXCEPT !.err = err])

WithArgs ==
    /\ expected # << >>
    /\ Last.kind \in QueryKinds
    /\ \E a \in ExpArgs : Configure([Last EXCEPT !.args = a])

WillReturnResult ==
    /\ expected # << >>
    /\ Last.kind = "Exec"
    /\ Configure([Last EXCEPT !.result = CannedResult])

WillReturnRows ==
    /\ expected # << >>
    /\ Last.kind = "Query"
    /\ Configure([Last EXCEPT !.result = CannedRows])

\* The test body starts: no expectation is declared from here on.
Dispatch ==
    /\ phase = "setup"
    /\ phase' = "dispatch"
    /\ UNCHANGED << session, registry, locals, verdict >>

Setup ==
    \/ ExpectClose \/ ExpectBegin \/ ExpectCommit \/ ExpectRollback
    \/ ExpectPrepare \/ ExpectExec \/ ExpectQuery
    \/ MatchExpectationsInOrder \/ RequireExpectations
    \/ WillReturnError \/ WithArgs \/ WillReturnResult \/ WillReturnRows
    \/ Dispatch

\* ---------------------------------------------------- handler steps

Unlock(i) == mutex' = [mutex EXCEPT ![i] = 0]

\* The handler's deferred calls: only Close holds c.drv's mutex.
Deferred(p) == drvMutex' = IF call[p].kind = "Close" THEN 0 ELSE drvMutex

Return(p, r) ==
    /\ pc' = [pc EXCEPT ![p] = "done"]
    /\ ret' = [ret EXCEPT ![p] = r]
    /\ Deferred(p)

\* A driver call enters its handler.
Invoke(p, c) ==
    /\ phase = "dispatch"
    /\ pc[p] \in {"idle", "done"}
    /\ ncalls[p] < MaxCalls
    /\ call' = [call EXCEPT ![p] = c]
    /\ pc' = [pc EXCEPT ![p] = IF c.kind = "Close" THEN "enter" ELSE "loop"]
    /\ next' = [next EXCEPT ![p] = 1]
    /\ fulfilled' = [fulfilled EXCEPT ![p] = 0]
    /\ claimed' = [claimed EXCEPT ![p] = 0]
    /\ ret' = [ret EXCEPT ![p] = NoRet]
    /\ ncalls' = [ncalls EXCEPT ![p] = @ + 1]
    /\ before' = [before EXCEPT ![p] =
                      [i \in 1..Len(expected) |-> expected[i].triggered]]
    /\ verdict' = -1
    /\ UNCHANGED << phase, session, registry >>

\* Faulty variant: every Close removes the session from the registry.
CloseEnterAlwaysDelete(p) ==
    /\ pc[p] = "enter"
    /\ drvMutex = 0
    /\ drvMutex' = p
    /\ opened' = opened - 1
    /\ registered' = FALSE
    /\ pc' = [pc EXCEPT ![p] = "loop"]
    /\ UNCHANGED << phase, session, call, next, fulfilled, claimed, ret,
                    ncalls, before, verdict >>

\* c.drv.Lock(); c.opened--; delete(c.drv.conns, c.dsn) when it reaches 0
CloseEnter(p) ==
    /\ pc[p] = "enter"
    /\ drvMutex = 0
    /\ drvMutex' = p
    /\ opened' = opened - 1
    /\ registered' = IF opened - 1 = 0 THEN FALSE ELSE registered
    /\ pc' = [pc EXCEPT ![p] = "loop"]
    /\ UNCHANGED << phase, session, call, next, fulfilled, claimed, ret,
                    ncalls, before, verdict >>

\* Faulty variant: the scan reads the record without waiting for its mutex.
LockNextNoWait(p) ==
    /\ pc[p] = "loop"
    /\ next[p] <= Len(expected)
    /\ mutex' = [mutex EXCEPT ![next[p]] = p]
    /\ pc' = [pc EXCEPT ![p] = "locked"]
    /\ UNCHANGED << phase, expected, ordered, requireExpectations, registry,
                    call, next, fulfilled, claimed, ret, ncalls, before,
                    verdict >>

\* for _, next := range c.expected { next.Lock()
LockNext(p) ==
    /\ pc[p] = "loop"
    /\ next[p] <= Len(expected)
    /\ mutex[next[p]] = 0
    /\ mutex' = [mutex EXCEPT ![next[p]] = p]
    /\ pc' = [pc EXCEPT ![p] = "locked"]
    /\ UNCHANGED << phase, expected, ordered, requireExpectations, registry,
                    call, next, fulfilled, claimed, ret, ncalls,
                    before, verdict >>

\* Faulty variant: a fulfilled record is skipped without counting it.
SkipFulfilledNoCount(p) ==
    /\ pc[p] = "locked"
    /\ IsFulfilled(expected[next[p]])
    /\ Unlock(next[p])
    /\ next' = [next EXCEPT ![p] = @ + 1]
    /\ pc' = [pc EXCEPT ![p] = "loop"]
    /\ UNCHANGED << phase, expected, ordered, requireExpectations, registry,
                    call, fulfilled, claimed, ret, ncalls, before, verdict >>

\* if next.fulfilled() { next.Unlock(); fulfilled++; continue }
SkipFulfilled(p) ==
    /\ pc[p] = "locked"
    /\ IsFulfilled(expected[next[p]])
    /\ Unlock(next[p])
    /\ fulfilled' = [fulfilled EXCEPT ![p] = @ + 1]
    /\ next' = [next EXCEPT ![p] = @ + 1]
    /\ pc' = [pc EXCEPT ![p] = "loop"]
    /\ UNCHANGED << phase, expected, ordered, requireExpectations, registry,
                    call, claimed, ret, ncalls, before, verdict >>

\* break: the record stays locked and becomes the handler's `expected`.
Break(p) ==
    /\ claimed' = [claimed EXCEPT ![p] = next[p]]
    /\ pc' = [pc EXCEPT ![p] = "claim"]
    /\ UNCHANGED << mutex, next, ret, drvMutex >>

\* Faulty variant: the rejection returns with the record still locked.
UnexpectedNoUnlock(p) ==
    /\ mutex' = mutex
    /\ Return(p, [NoRet EXCEPT !.err = "UnexpectedKind", !.named = next[p]])
    /\ UNCHANGED << next, claimed >>

\* next.Unlock(); return fmt.Errorf("... was not expected, next expectation is: %s", next)
Unexpected(p) ==
    /\ Unlock(next[p])
    /\ Return(p, [NoRet EXCEPT !.err = "UnexpectedKind", !.named = next[p]])
    /\ UNCHANGED << next, claimed >>

\* next.Unlock() and on to the next record
Continue(p) ==
    /\ Unlock(next[p])
    /\ next' = [next EXCEPT ![p] = @ + 1]
    /\ pc' = [pc EXCEPT ![p] = "loop"]
    /\ UNCHANGED << claimed, ret, drvMutex >>

\* Faulty variant: the scan goes on past a pending record of another kind
\* in ordered mode too.
ScanKindSkipping(p, k) ==
    /\ pc[p] = "locked"
    /\ ~IsFulfilled(expected[next[p]])
    /\ IF expected[next[p]].kind = k THEN Break(p) ELSE Continue(p)
    /\ UNCHANGED << phase, expected, ordered, requireExpectations, opened,
                    registered, call, fulfilled, ncalls, before, verdict >>

\* Faulty variant: the pending record an ordered-mode call is rejected
\* against is consumed by the rejection.
ScanKindMarking(p, k) ==
    /\ pc[p] = "locked"
    /\ ~IsFulfilled(expected[next[p]])
    /\ IF expected[next[p]].kind = k THEN Break(p) /\ UNCHANGED expected
       ELSE IF ordered
            THEN /\ Unexpected(p)
                 /\ expected' = [expected EXCEPT ![next[p]].triggered = TRUE]
       ELSE Continue(p) /\ UNCHANGED expected
    /\ UNCHANGED << phase, ordered, requireExpectations, opened,
                    registered, call, fulfilled, ncalls, before, verdict >>

\* The loop body of Close, Begin, Prepare, Commit and Rollback on a record
\* that is not fulfilled.
ScanKind(p, k) ==
    /\ pc[p] = "locked"
    /\ ~IsFulfilled(expected[next[p]])
    /\ IF expected[next[p]].kind = k THEN Break(p)
       ELSE IF ordered THEN Unexpected(p)
       ELSE Continue(p)
    /\ UNCHANGED << phase, expected, ordered, requireExpectations, opened,
                    registered, call, fulfilled, ncalls, before, verdict >>

\* Faulty variant: the unordered scan stops at the first pending record of
\* the call's kind without trying its predicate.
ScanQueryKindOnly(p, k) ==
    /\ pc[p] = "locked"
    /\ ~IsFulfilled(expected[next[p]])
    /\ IF expected[next[p]].kind = k THEN Break(p)
       ELSE IF ordered THEN Unexpected(p)
       ELSE Continue(p)
    /\ UNCHANGED << phase, expected, ordered, requireExpectations, opened,
                    registered, call, fulfilled, ncalls, before, verdict >>

\* Faulty variant: Exec and Query scan past pending records in ordered mode
\* as they do in unordered mode.
ScanQueryUnordered(p, k) ==
    /\ pc[p] = "locked"
    /\ ~IsFulfilled(expected[next[p]])
    /\ IF /\ expected[next[p]].kind = k
          /\ attemptMatch(expected[next[p]], stripQuery(call[p].query),
                          call[p].args)
       THEN Break(p)
       ELSE Continue(p)
    /\ UNCHANGED << phase, expected, ordered, requireExpectations, opened,
                    registered, call, fulfilled, ncalls, before, verdict >>

\* The loop body of Exec and Query on a record that is not fulfilled.
ScanQuery(p, k) ==
    /\ pc[p] = "locked"
    /\ ~IsFulfilled(expected[next[p]])
    /\ IF ordered
       THEN IF expected[next[p]].kind = k THEN Break(p) ELSE Unexpected(p)
       ELSE IF /\ expected[next[p]].kind = k
               /\ attemptMatch(expected[next[p]], stripQuery(call[p].query),
                               call[p].args)
            THEN Break(p)
            ELSE Continue(p)
    /\ UNCHANGED << phase, expected, ordered, requireExpectations, opened,
                    registered, call, fulfilled, ncalls, before, verdict >>

\* What a handler returns beside its error when no record was claimed and
\* requireExpectations is off: Begin returns the session itself.
ZeroResult(k) == IF k = "Begin" THEN "tx" ELSE Nil

\* Faulty variant: an unmatched call is an error whatever requireExpectations is.
NotExpectedStrict(p, k) ==
    /\ pc[p] = "loop"
    /\ next[p] > Len(expected)
    /\ Return(p, [NoRet EXCEPT !.err = "NoMatch",
                               !.note = (fulfilled[p] = Len(expected))])
    /\ UNCHANGED << phase, session, opened, registered, call, next, fulfilled,
                    claimed, ncalls, before, verdict >>

\* if expected == nil { if c.requireExpectations { ... return error } } return
NotExpected(p, k) ==
    /\ pc[p] = "loop"
    /\ next[p] > Len(expected)
    /\ IF requireExpectations
       THEN Return(p, [NoRet EXCEPT !.err = "NoMatch",
                                    !.note = (fulfilled[p] = Len(expected))])
       ELSE Return(p, [NoRet EXCEPT !.err = Nil, !.res = ZeroResult(k)])
    /\ UNCHANGED << phase, session, opened, registered, call,
                    next, fulfilled, claimed, ncalls, before, verdict >>

\* What Close, Begin, Prepare, Commit and Rollback return with a claimed record.
KindResult(k) ==
    IF k = "Begin" THEN "tx" ELSE IF k = "Prepare" THEN "stmt" ELSE Nil

\* Faulty variant: the record is returned without being marked triggered.
ClaimKindNoTrigger(p, k) ==
    /\ pc[p] = "claim"
    /\ Unlock(claimed[p])
    /\ Return(p, [NoRet EXCEPT !.err = expected[claimed[p]].err,
                               !.res = KindResult(k),
                               !.rec = claimed[p]])
    /\ UNCHANGED << phase, expected, ordered, requireExpectations, opened,
                    registered, call, next, fulfilled, claimed, ncalls, before,
                    verdict >>

\* Faulty variant: a record whose canned error is delivered stays pending.
ClaimKindUnlessError(p, k) ==
    /\ pc[p] = "claim"
    /\ expected' = [expected EXCEPT ![claimed[p]].triggered =
                                        (expected[claimed[p]].err = Nil)]
    /\ Unlock(claimed[p])
    /\ Return(p, [NoRet EXCEPT !.err = expected[claimed[p]].err,
                               !.res = KindResult(k),
                               !.rec = claimed[p]])
    /\ UNCHANGED << phase, ordered, requireExpectations, opened, registered,
                    call, next, fulfilled, claimed, ncalls,
                    before, verdict >>

\* expected.triggered = true; expected.Unlock(); err = expected.err
ClaimKind(p, k) ==
    /\ pc[p] = "claim"
    /\ expected' = [expected EXCEPT ![claimed[p]].triggered = TRUE]
    /\ Unlock(claimed[p])
    /\ Return(p, [NoRet EXCEPT !.err = expected[claimed[p]].err,
                               !.res = KindResult(k),
                               !.rec = claimed[p]])
    /\ UNCHANGED << phase, ordered, requireExpectations, opened, registered,
                    call, next, fulfilled, claimed, ncalls,
                    before, verdict >>

\* Faulty variant: a configured result wins over a canned error.
OutcomeResultFirst(e, sql, args) ==
    IF ~queryMatches(e, sql) THEN [NoRet EXCEPT !.err = "QueryMismatch"]
    ELSE IF argsCompare(e, args) = "fault"
         THEN [NoRet EXCEPT !.err = "ArgumentConversion"]
    ELSE IF argsCompare(e, args) = "panic"
         THEN [NoRet EXCEPT !.err = "Panic"]
    ELSE IF argsCompare(e, args) = "mismatch"
         THEN [NoRet EXCEPT !.err = "ArgumentMismatch"]
    ELSE IF e.result # Nil THEN [NoRet EXCEPT !.err = Nil, !.res = e.result]
    ELSE IF e.err # Nil THEN [NoRet EXCEPT !.err = e.err]
    ELSE [NoRet EXCEPT !.err = "Configuration"]

\* Faulty variant: the arguments are compared before the query text.
OutcomeArgsFirst(e, sql, args) ==
    IF argsCompare(e, args) = "fault"
         THEN [NoRet EXCEPT !.err = "ArgumentConversion"]
    ELSE IF argsCompare(e, args) = "panic"
         THEN [NoRet EXCEPT !.err = "Panic"]
    ELSE IF argsCompare(e, args) = "mismatch"
         THEN [NoRet EXCEPT !.err = "ArgumentMismatch"]
    ELSE IF ~queryMatches(e, sql) THEN [NoRet EXCEPT !.err = "QueryMismatch"]
    ELSE IF e.err # Nil THEN [NoRet EXCEPT !.err = e.err]
    ELSE IF e.result = Nil THEN [NoRet EXCEPT !.err = "Configuration"]
    ELSE [NoRet EXCEPT !.err = Nil, !.res = e.result]

\* Faulty variant: nothing recovers the *reflect.ValueError of the argument
\* comparison, it leaves the call like any other panic.
OutcomeNoRecover(e, sql, args) ==
    IF ~queryMatches(e, sql) THEN [NoRet EXCEPT !.err = "QueryMismatch"]
    ELSE IF argsCompare(e, args) \in {"fault", "panic"}
         THEN [NoRet EXCEPT !.err = "Panic"]
    ELSE IF argsCompare(e, args) = "mismatch"
         THEN [NoRet EXCEPT !.err = "ArgumentMismatch"]
    ELSE IF e.err # Nil THEN [NoRet EXCEPT !.err = e.err]
    ELSE IF e.result = Nil THEN [NoRet EXCEPT !.err = "Configuration"]
    ELSE [NoRet EXCEPT !.err = Nil, !.res = e.result]

\* The checks of Exec and Query on the claimed record, in the code's order.
\* A *reflect.ValueError is recovered into an error; any other panic is
\* raised again and leaves the call ("Panic").
Outcome(e, sql, args) ==
    IF ~queryMatches(e, sql) THEN [NoRet EXCEPT !.err = "QueryMismatch"]
    ELSE IF argsCompare(e, args) = "fault"
         THEN [NoRet EXCEPT !.err = "ArgumentConversion"]
    ELSE IF argsCompare(e, args) = "panic"
         THEN [NoRet EXCEPT !.err = "Panic"]
    ELSE IF argsCompare(e, args) = "mismatch"
         THEN [NoRet EXCEPT !.err = "ArgumentMismatch"]
    ELSE IF e.err # Nil THEN [NoRet EXCEPT !.err = e.err]
    ELSE IF e.result = Nil THEN [NoRet EXCEPT !.err = "Configuration"]
    ELSE [NoRet EXCEPT !.err = Nil, !.res = e.result]

\* Faulty variant: the outcome is delivered without marking the record triggered.
ClaimQueryNoTrigger(p) ==
    /\ pc[p] = "claim"
    /\ Unlock(claimed[p])
    /\ Return(p, [Outcome(expected[claimed[p]], stripQuery(call[p].query),
                          call[p].args)
                     EXCEPT !.rec = claimed[p]])
    /\ UNCHANGED << phase, expected, ordered, requireExpectations, opened,
                    registered, call, next, fulfilled, claimed, ncalls, before,
                    verdict >>

\* defer expected.Unlock(); expected.triggered = true; the checks; return
ClaimQuery(p) ==
    /\ pc[p] = "claim"
    /\ expected' = [expected EXCEPT ![claimed[p]].triggered = TRUE]
    /\ Unlock(claimed[p])
    /\ Return(p, [Outcome(expected[claimed[p]], stripQuery(call[p].query),
                          call[p].args)
                     EXCEPT !.rec = claimed[p]])
    /\ UNCHANGED << phase, ordered, requireExpectations, opened, registered,
                    call, next, fulfilled, claimed, ncalls,
                    before, verdict >>

\* ----------------------------------------------------------- handlers

\* The calls database/sql makes on the connection.
Calls ==
    [kind : {"Close", "Begin", "Commit", "Rollback"}, args : {NoArgs}, query : {NoText}]
    \cup [kind : {"Prepare"}, args : {NoArgs}, query : Queries]
    \cup [kind : QueryKinds, args : CallArgs, query : Queries]

\* The test body, one goroutine, makes its next call.
DriverCall == \E c \in Calls : Invoke(1, c)

Close(p) ==
    /\ call[p].kind = "Close"
    /\ \/ CloseEnter(p)
       \/ LockNext(p)
       \/ SkipFulfilled(p)
       \/ ScanKind(p, "Close")
       \/ NotExpected(p, "Close")
       \/ ClaimKind(p, "Close")

Begin(p) ==
    /\ call[p].kind = "Begin"
    /\ \/ LockNext(p)
       \/ SkipFulfilled(p)
       \/ ScanKind(p, "Begin")
       \/ NotExpected(p, "Begin")
       \/ ClaimKind(p, "Begin")

Commit(p) ==
    /\ call[p].kind = "Commit"
    /\ \/ LockNext(p)
       \/ SkipFulfilled(p)
       \/ ScanKind(p, "Commit")
       \/ NotExpected(p, "Commit")
       \/ ClaimKind(p, "Commit")

Rollback(p) ==
    /\ call[p].kind = "Rollback"
    /\ \/ LockNext(p)
       \/ SkipFulfilled(p)
       \/ ScanKind(p, "Rollback")
       \/ NotExpected(p, "Rollback")
       \/ ClaimKind(p, "Rollback")

Prepare(p) ==
    /\ call[p].kind = "Prepare"
    /\ \/ LockNext(p)
       \/ SkipFulfilled(p)
       \/ ScanKind(p, "Prepare")
       \/ NotExpected(p, "Prepare")
       \/ ClaimKind(p, "Prepare")

Exec(p) ==
    /\ call[p].kind = "Exec"
    /\ \/ LockNext(p)
       \/ SkipFulfilled(p)
       \/ ScanQuery(p, "Exec")
       \/ NotExpected(p, "Exec")
       \/ ClaimQuery(p)

Query(p) ==
    /\ call[p].kind = "Query"
    /\ \/ LockNext(p)
       \/ SkipFulfilled(p)
       \/ ScanQuery(p, "Query")
       \/ NotExpected(p, "Query")
       \/ ClaimQuery(p)

Quiescent == \A p \in Callers : pc[p] \in {"idle", "done"}

\* Faulty variant: verification looks at one record only.
RemainingFirstOnly(i) ==
    IF i > Len(expected) THEN 0
    ELSE IF ~IsFulfilled(expected[i]) THEN i
    ELSE 0

\* for _, e := range c.expected { if !e.fulfilled() { return error naming e } }
\* from record i on: the index of the record named, 0 for nil.
RECURSIVE Remaining(_)
Remaining(i) ==
    IF i > Len(expected) THEN 0
    ELSE IF ~IsFulfilled(expected[i]) THEN i
    ELSE Remaining(i + 1)

\* Faulty variant: verification consumes the queue, clearing every flag it read.
ExpectationsWereMetResetting ==
    /\ phase = "dispatch"
    /\ Quiescent
    /\ verdict' = Remaining(1)
    /\ expected' = [i \in 1..Len(expected) |->
                        [expected[i] EXCEPT !.triggered = FALSE]]
    /\ UNCHANGED << phase, mutex, ordered, requireExpectations, registry,
                    locals >>

\* The test verifies once no call is running; verdict 0 is nil, verdict i is
\* the error naming record i.
ExpectationsWereMet ==
    /\ phase = "dispatch"
    /\ Quiescent
    /\ verdict' = Remaining(1)
    /\ UNCHANGED << phase, session, registry, locals >>

Handlers(p) ==
    \/ Close(p) \/ Begin(p) \/ Commit(p) \/ Rollback(p)
    \/ Prepare(p) \/ Exec(p) \/ Query(p)

Next ==
    \/ Setup
    \/ DriverCall
    \/ \E p \in Callers : Handlers(p)
    \/ ExpectationsWereMet

Spec == Init /\ [][Next]_vars

\* ------------------------------------------------- concurrent dispatch

\* The sessions and calls of the concurrent runs: every kind of record and
\* call, the query-based ones with one argument list.
RaceExpectations ==
    { NewExpectation(k, NoText) : k \in {"Close", "Begin", "Commit", "Rollback"} }
    \cup { NewExpectation("Prepare", <<"a">>) }
    \cup { [NewExpectation("Exec", rx) EXCEPT !.result = CannedResult] : rx \in Patterns }
    \cup { [NewExpectation("Exec", <<"a">>) EXCEPT !.err = "errA"] }
    \cup { [NewExpectation("Exec", <<"a">>) EXCEPT !.args = a, !.result = CannedResult] :
                a \in { <<"s1">>, << BadMatcher >> } }
    \cup { [NewExpectation("Query", <<"a">>) EXCEPT !.result = CannedRows] }

RaceQueues ==
    UNION { [1..n -> RaceExpectations] : n \in 0..MaxQueue }

RaceCalls ==
    { c \in Calls : c.args \in {NoArgs, <<"i1">>} /\ (c.kind # "Exec" => c.query \in {NoText, <<"a">>}) }

\* The session after setup at the moment NumCallers goroutines, each on a
\* connection of its own, have entered one handler each.
InitConc ==
    /\ phase = "dispatch"
    /\ expected \in RaceQueues
    /\ mutex = [i \in 1..Len(expected) |-> 0]
    /\ ordered \in BOOLEAN
    /\ requireExpectations \in BOOLEAN
    /\ opened = NumCallers
    /\ registered = TRUE
    /\ drvMutex = 0
    /\ call \in [Callers -> RaceCalls]
    /\ pc = [p \in Callers |-> IF call[p].kind = "Close" THEN "enter" ELSE "loop"]
    /\ next = [p \in Callers |-> 1]
    /\ fulfilled = [p \in Callers |-> 0]
    /\ claimed = [p \in Callers |-> 0]
    /\ ret = [p \in Callers |-> NoRet]
    /\ ncalls = [p \in Callers |-> 1]
    /\ before = [p \in Callers |-> [i \in 1..Len(expected) |-> FALSE]]
    /\ verdict = -1

NextConc ==
    \/ \E p \in Callers : Handlers(p)
    \/ ExpectationsWereMet

ConcSpec == InitConc /\ [][NextConc]_vars

\* Concurrent dispatch under the scheduling Go gives: a goroutine that can
\* take a step of its handler eventually does, and a goroutine waiting for a
\* sync.Mutex gets it once it stays free.
FairConcSpec == ConcSpec /\ \A p \in Callers : WF_vars(Handlers(p))

\* ------------------------------------------------------------- claims

Done(p) == pc[p] = "done"
AllDone == \A p \in Callers : Done(p)
Indices == 1..Len(expected)
SetMin(S) == CHOOSE x \in S : \A y \in S : x <= y
Pending(i) == ~expected[i].triggered
PendingBefore(p, i) == ~before[p][i]
AllFulfilledBefore(p) == \A i \in Indices : before[p][i]

\* The head-most record that was unfulfilled when p's call began, 0 if none.
HeadBefore(p) ==
    IF AllFulfilledBefore(p) THEN 0
    ELSE SetMin({i \in Indices : PendingBefore(p, i)})

\* Call c satisfies record e: same kind, the normalized query text matches
\* the pattern (Prepare, Exec, Query), the arguments match (Exec, Query).
Satisfies(e, c) ==
    /\ e.kind = c.kind
    /\ c.kind \in QueryKinds \cup {"Prepare"} => queryMatches(e, stripQuery(c.query))
    /\ c.kind \in QueryKinds => argsCompare(e, c.args) = "match"

\* The records that were pending when p's call began and that the call satisfies.
Candidates(p) ==
    {i \in Indices : PendingBefore(p, i) /\ Satisfies(expected[i], call[p])}

\* The record a satisfying call is due: the head-most pending one in ordered
\* mode, the first candidate in queue order in unordered mode; 0 if none.
Target(p) ==
    IF ordered
    THEN IF HeadBefore(p) \in Candidates(p) THEN HeadBefore(p) ELSE 0
    ELSE IF Candidates(p) # {} THEN SetMin(Candidates(p)) ELSE 0

\* C1: under any interleaving of concurrent calls on one session no record
\* is claimed by two calls: at most one call ever holds a given record as
\* the one it found unfulfilled, triggers it and returns its outcome.
C1_NoDoubleClaim ==
    \A p, q \in Callers :
        (p # q /\ claimed[p] # 0) => claimed[p] # claimed[q]

\* Two calls raced for one record that both satisfy: one claimed it, the
\* other returned without a record.
C1_Witness ==
    \E p, q \in Callers :
        /\ p # q /\ Done(p) /\ Done(q)
        /\ ret[p].rec # 0 /\ ret[q].rec = 0
        /\ Satisfies(expected[ret[p].rec], call[p])
        /\ Satisfies(expected[ret[p].rec], call[q])

\* Record i is the single record of its kind, Exec or Query, in an unordered
\* session, and every concurrent call satisfies it.
RaceFor(i) ==
    /\ ~ordered
    /\ expected[i].kind \in QueryKinds
    /\ \A j \in Indices : j # i => expected[j].kind # expected[i].kind
    /\ \A p \in Callers : Satisfies(expected[i], call[p])

\* C2 as stated: N concurrent calls satisfying the single pending Exec (or
\* Query) record of an unordered session: exactly one succeeds with nil error
\* and the canned outcome, every other returns a non-nil NoMatchError or
\* UnexpectedKindError.
C2_Original ==
    \A i \in Indices :
        (AllDone /\ RaceFor(i)) =>
            \E w \in Callers :
                /\ ret[w].err = Nil
                /\ ret[w].res = expected[i].result
                /\ \A p \in Callers \ {w} :
                       ret[p].err \in {"NoMatch", "UnexpectedKind"}

\* C2 amended: the same with requireExpectations on and a record that has a
\* canned result or rows and no canned error: exactly one call claims the
\* record and returns nil error and the canned result, every other call
\* claims nothing and returns NoMatchError.
C2_ExactlyOnce ==
    \A i \in Indices :
        ( /\ AllDone /\ RaceFor(i)
          /\ requireExpectations
          /\ expected[i].err = Nil /\ expected[i].result # Nil ) =>
            \E w \in Callers :
                /\ ret[w].err = Nil
                /\ ret[w].rec = i
                /\ ret[w].res = expected[i].result
                /\ \A p \in Callers \ {w} :
                       ret[p].err = "NoMatch" /\ ret[p].rec = 0 /\ ret[p].res = Nil

C2_Witness ==
    \E i \in Indices :
        /\ AllDone /\ RaceFor(i) /\ requireExpectations
        /\ expected[i].err = Nil /\ expected[i].result # Nil
        /\ \E p \in Callers : ret[p].err = "NoMatch"
        /\ \E p \in Callers : ret[p].rec = i

\* C3: in ordered mode a call of kind K, whatever K, is rejected with an
\* UnexpectedKindError naming the head-most unfulfilled record whenever that
\* record's kind is not K, even if a later record of kind K would match.
C3_OrderedRejects ==
    \A p \in Callers :
        ( /\ Done(p) /\ ordered
          /\ HeadBefore(p) # 0
          /\ expected[HeadBefore(p)].kind # call[p].kind ) =>
            /\ ret[p].err = "UnexpectedKind"
            /\ ret[p].named = HeadBefore(p)
            /\ ret[p].rec = 0

\* Queue [Begin, Commit]: Commit() is rejected naming Begin although the
\* second record would have matched.
C3_Witness ==
    \E p \in Callers :
        /\ Done(p) /\ ordered /\ Len(expected) = 2
        /\ expected[1].kind = "Begin" /\ expected[2].kind = "Commit"
        /\ call[p].kind = "Commit"
        /\ HeadBefore(p) = 1
        /\ ret[p].err = "UnexpectedKind" /\ ret[p].named = 1

\* C4: in unordered mode an Exec or Query call claims the first record in
\* queue order that is unfulfilled, of its kind and whose predicate it
\* satisfies; every other record, the earlier ones inspected included, keeps
\* its state.
C4_UnorderedFirstMatch ==
    \A p \in Callers :
        (Done(p) /\ ~ordered /\ call[p].kind \in QueryKinds) =>
            /\ ret[p].rec = Target(p)
            /\ \A i \in Indices :
                   expected[i].triggered = (before[p][i] \/ i = Target(p))

\* Two Exec records with different patterns, the call matches only the
\* second: the second is claimed, the first stays pending.
C4_Witness ==
    \E p \in Callers :
        /\ Done(p) /\ ~ordered /\ Len(expected) = 2
        /\ expected[1].kind = "Exec" /\ expected[2].kind = "Exec"
        /\ expected[1].sqlRegex # expected[2].sqlRegex
        /\ call[p].kind = "Exec"
        /\ ~Satisfies(expected[1], call[p])
        /\ ret[p].rec = 2 /\ Pending(1) /\ ~Pending(2)

NothingToClaim(p) ==
    IF ordered THEN AllFulfilledBefore(p)
    ELSE \A i \in Indices :
             \/ before[p][i]
             \/ expected[i].kind # call[p].kind
             \/ /\ call[p].kind \in QueryKinds
                /\ ~attemptMatch(expected[i], stripQuery(call[p].query), call[p].args)

C6_Verification ==
    verdict # -1 =>
        /\ verdict = 0 <=> \A i \in Indices : ~Pending(i)
        /\ verdict # 0 =>
               /\ verdict \in Indices
               /\ Pending(verdict)
               /\ \A j \in 1..(verdict - 1) : ~Pending(j)

\* One declared ExpectQuery, never claimed although a call was made, is the
\* record verification names.
C6_Witness ==
    /\ verdict = 1 /\ Len(expected) = 1
    /\ expected[1].kind = "Query"
    /\ Done(1)

\* The i-th call of the test body comes in declaration order: exactly the
\* first i-1 records were fulfilled when it began and it satisfies record i.
InScript(p) ==
    /\ ncalls[p] \in Indices
    /\ \A j \in Indices : before[p][j] <=> j < ncalls[p]
    /\ Satisfies(expected[ncalls[p]], call[p])

\* C7: when the calls come sequentially in declaration order, the i-th
\* satisfying Ei, the i-th call claims exactly Ei, and ExpectationsWereMet
\* returns an error after any proper prefix of the calls (none included) and
\* nil after all n.
C7_ScriptOrder ==
    /\ \A p \in Callers :
           (Done(p) /\ InScript(p)) =>
               /\ ret[p].rec = ncalls[p]
               /\ \A j \in Indices : ~Pending(j) <=> j <= ncalls[p]
               /\ verdict # -1 =>
                      /\ verdict = 0 <=> ncalls[p] = Len(expected)
                      /\ verdict # 0 => verdict = ncalls[p] + 1
    /\ (phase = "dispatch" /\ ncalls[1] = 0 /\ verdict # -1) =>
           (verdict = 0 <=> expected = << >>)

\* Two records, two calls in declaration order, verification succeeds.
C7_Witness ==
    /\ Len(expected) = 2 /\ ncalls[1] = 2
    /\ Done(1) /\ InScript(1)
    /\ verdict = 0

\* C8: a Prepare whose normalized query text does not match the pattern of
\* a pending ExpectedPrepare record does not succeed against that record:
\* in ordered mode it yields QueryMismatchError, in unordered mode the record
\* is skipped and left pending.
C8_PrepareMatchesPattern ==
    \A p \in Callers : \A i \in Indices :
        ( /\ Done(p) /\ call[p].kind = "Prepare"
          /\ expected[i].kind = "Prepare"
          /\ PendingBefore(p, i)
          /\ ~queryMatches(expected[i], stripQuery(call[p].query)) ) =>
            /\ ret[p].rec = i => ret[p].err = "QueryMismatch"
            /\ ~ordered => Pending(i)

\* C9: an Exec or Query call that satisfies the record it is due claims it
\* and returns exactly the record's result or rows with nil error when no
\* error is canned, and exactly the canned error with nil result when one
\* is, a result being configured as well or not.
C9_RoundTrip ==
    \A p \in Callers :
        (Done(p) /\ call[p].kind \in QueryKinds /\ Target(p) # 0) =>
            /\ ret[p].rec = Target(p)
            /\ (expected[Target(p)].err = Nil /\ expected[Target(p)].result # Nil) =>
                   /\ ret[p].err = Nil
                   /\ ret[p].res = expected[Target(p)].result
            /\ expected[Target(p)].err # Nil =>
                   /\ ret[p].err = expected[Target(p)].err
                   /\ ret[p].res = Nil

\* A matching Exec against a record with both a result and an error canned
\* returns the error and no result.
C9_Witness ==
    \E p \in Callers :
        /\ Done(p) /\ call[p].kind = "Exec" /\ Target(p) # 0
        /\ expected[Target(p)].err # Nil /\ expected[Target(p)].result # Nil
        /\ ret[p].err = expected[Target(p)].err /\ ret[p].res = Nil

\* C10: with requireExpectations on, the error of a call that matched
\* nothing carries the "all expectations were already fulfilled" note iff
\* every declared record was fulfilled when the call began (an empty queue
\* included); with a record still pending the note is absent.
C10_AllFulfilledNote ==
    \A p \in Callers :
        ( /\ Done(p) /\ requireExpectations
          /\ ret[p].err \in {"NoMatch", "UnexpectedKind"} ) =>
            (ret[p].note <=> AllFulfilledBefore(p))

\* The one declared record was claimed by the first call; the second call
\* is beyond the script and its error carries the note.
C10_Witness ==
    \E p \in Callers :
        /\ Done(p) /\ requireExpectations /\ Len(expected) = 1
        /\ ncalls[p] = 2
        /\ ret[p].err = "NoMatch" /\ ret[p].note

\* C11: for Exec, Query and Prepare in both modes, a call whose query text
\* or arguments fail the predicate of a record that was pending when the
\* call began leaves that record pending (and so still reported by
\* ExpectationsWereMet): triggered is set only on a true predicate result.
C11_TriggeredOnlyOnMatch ==
    \A i \in Indices :
        ( /\ Done(1)
          /\ call[1].kind \in QueryKinds \cup {"Prepare"}
          /\ expected[i].kind = call[1].kind
          /\ PendingBefore(1, i)
          /\ ~Satisfies(expected[i], call[1]) ) =>
            /\ Pending(i)
            /\ verdict # -1 => verdict # 0

\* C12: on the record an Exec or Query call took, the checks come in the
\* order query pattern, arguments, canned error, result/rows present, and the
\* first that fails decides the error: QueryMismatchError before
\* ArgumentMismatchError, both before the canned error, and
\* ConfigurationError exactly when query and arguments match and neither an
\* error nor a result/rows is canned.
C12_CheckOrder ==
    \A p \in Callers :
        (Done(p) /\ call[p].kind \in QueryKinds /\ ret[p].rec # 0) =>
            LET e == expected[ret[p].rec]
                qm == queryMatches(e, stripQuery(call[p].query))
                am == argsCompare(e, call[p].args)
            IN  /\ ~qm => ret[p].err = "QueryMismatch"
                /\ (qm /\ am = "mismatch") => ret[p].err = "ArgumentMismatch"
                /\ (qm /\ am = "match" /\ e.err # Nil) => ret[p].err = e.err
                /\ ret[p].err = "Configuration" <=>
                       (qm /\ am = "match" /\ e.err = Nil /\ e.result = Nil)
                /\ ret[p].err # Nil => ret[p].res = Nil

\* An Exec whose query text and arguments both fail a record that has a
\* canned error: the query mismatch is what is reported.
C12_Witness ==
    \E p \in Callers :
        /\ Done(p) /\ call[p].kind = "Exec" /\ ret[p].rec # 0
        /\ ~queryMatches(expected[ret[p].rec], stripQuery(call[p].query))
        /\ argsCompare(expected[ret[p].rec], call[p].args) = "mismatch"
        /\ expected[ret[p].rec].err # Nil
        /\ ret[p].err = "QueryMismatch"

\* C13: in ordered mode, in every reachable state and under any interleaving
\* of concurrent calls, the fulfilled records form a prefix of the queue: no
\* record is triggered while an earlier one is pending.
C13_OrderedPrefix ==
    ordered =>
        \A i, j \in Indices :
            (i < j /\ expected[j].triggered) => expected[i].triggered

\* Two goroutines in ordered mode: the one that claimed the second record
\* did so after the other had claimed the first.
C13_Witness ==
    /\ ordered /\ AllDone /\ Len(expected) = 2
    /\ ret[1].rec = 2 /\ ret[2].rec = 1
    /\ expected[1].triggered /\ expected[2].triggered

\* C14: during dispatch and verification no step reorders, shortens or
\* extends the queue or changes anything of a record but its triggered flag,
\* and that flag is monotone: once true it is never false again, under any
\* sequence or interleaving of calls.
C14_QueueStable ==
    [][ phase = "dispatch" =>
            /\ Len(expected') = Len(expected)
            /\ \A i \in Indices :
                   /\ [expected'[i] EXCEPT !.triggered = FALSE]
                          = [expected[i] EXCEPT !.triggered = FALSE]
                   /\ expected[i].triggered => expected'[i].triggered ]_vars

\* Verification ran after concurrent calls had claimed one of two records:
\* the queue still holds both, one triggered and one pending.
C14_Witness ==
    /\ phase = "dispatch" /\ verdict # -1 /\ AllDone
    /\ Len(expected) = 2
    /\ \E i, j \in Indices : expected[i].triggered /\ ~expected[j].triggered

\* The call of the test body has just returned r without a record: an
\* UnexpectedKindError, a NoMatchError, or the lenient nil error.
NoClaim(r) ==
    \/ r.err \in {"UnexpectedKind", "NoMatch"}
    \/ r.err = Nil /\ r.rec = 0

\* C15: a call that returns an UnexpectedKindError, a NoMatchError or the
\* lenient no-op success leaves every record's triggered flag as it was when
\* the call began, and a step of ExpectationsWereMet changes no record.
C15_RejectionFrame ==
    [][ /\ (pc'[1] = "done" /\ NoClaim(ret'[1])) =>
               /\ ret'[1].rec = 0
               /\ \A i \in 1..Len(expected') :
                      expected'[i].triggered = before'[1][i]
        /\ (phase = "dispatch" /\ pc' = pc /\ verdict' # -1) =>
               expected' = expected ]_vars

\* Queue [Begin, Commit] in ordered mode: Begin, then a second Begin that
\* is rejected naming Commit, then verification; Commit is still pending.
C15_Witness ==
    /\ ordered /\ Len(expected) = 2 /\ Done(1) /\ ncalls[1] = 2
    /\ expected[1].kind = "Begin" /\ expected[2].kind = "Commit"
    /\ ret[1].err = "UnexpectedKind" /\ ret[1].named = 2
    /\ expected[1].triggered /\ ~expected[2].triggered
    /\ verdict = 2

\* C16: for Close, Begin, Commit and Rollback the kind alone decides: the
\* call claims the first record of its kind that was unfulfilled when it
\* began (in ordered mode only if that is the head-most unfulfilled record),
\* marks it triggered, leaves the others alone and returns the record's
\* canned error as it is, nil when none was configured; the record is
\* fulfilled whether the canned error is nil or not.
C16_KindSuffices ==
    \A p \in Callers :
        ( /\ Done(p)
          /\ call[p].kind \in {"Close", "Begin", "Commit", "Rollback"} ) =>
            /\ ret[p].rec = Target(p)
            /\ \A i \in Indices :
                   expected[i].triggered = (before[p][i] \/ i = Target(p))
            /\ Target(p) # 0 =>
                   /\ ret[p].err = expected[Target(p)].err
                   /\ verdict # -1 => verdict # Target(p)

\* Unordered mode, queue [Begin, Rollback with a canned error]: Rollback()
\* claims the second record and returns its error, and verification then
\* names the Begin record, not the Rollback one.
C16_Witness ==
    \E p \in Callers :
        /\ Done(p) /\ ~ordered /\ Len(expected) = 2
        /\ expected[1].kind = "Begin" /\ expected[2].kind = "Rollback"
        /\ call[p].kind = "Rollback"
        /\ ret[p].rec = 2 /\ ret[p].err \in CannedErrs
        /\ expected[2].triggered /\ ~expected[1].triggered
        /\ verdict = 1

\* C17: in Exec and Query, when the argument comparison on the record the
\* call took raises a value-representation fault, the call returns a non-nil
\* ArgumentConversionError and no result, and the fault does not leave the
\* call; a fault of another kind leaves the call; in both cases the call
\* holds no record lock afterwards.
C17_FaultRecovered ==
    \A p \in Callers :
        (Done(p) /\ call[p].kind \in QueryKinds) =>
            /\ \A i \in Indices : mutex[i] # p
            /\ ret[p].err \in {"ArgumentConversion", "Panic"} => ret[p].rec # 0
            /\ ret[p].rec # 0 =>
                   LET e == expected[ret[p].rec]
                       qm == queryMatches(e, stripQuery(call[p].query))
                       am == argsCompare(e, call[p].args)
                   IN  /\ (qm /\ am = "fault") <=> ret[p].err = "ArgumentConversion"
                       /\ (qm /\ am = "panic") <=> ret[p].err = "Panic"
                       /\ ret[p].err = "ArgumentConversion" => ret[p].res = Nil

\* Ordered mode, two Exec records, one expecting a string where the calls
\* pass an integer and one with a matcher that panics: one goroutine got
\* the ArgumentConversionError, the other's call panicked, both locks free.
C17_Witness ==
    \E p, q \in Callers :
        /\ p # q /\ Done(p) /\ Done(q) /\ ordered
        /\ ret[p].err = "ArgumentConversion" /\ ret[p].rec # 0
        /\ ret[q].err = "Panic" /\ ret[q].rec # 0
        /\ \A i \in Indices : mutex[i] = 0

\* The record locks goroutine p holds.
Held(p) == {i \in Indices : mutex[i] = p}

\* C18: dispatch is deadlock-free. At every moment a call holds at most one
\* record lock, and the registry lock only inside Close; a call that has
\* returned holds neither, whatever path it returned on; and under fair
\* scheduling every concurrent call returns.
C18_DeadlockFree ==
    /\ [](\A p \in Callers :
              /\ Cardinality(Held(p)) <= 1
              /\ drvMutex = p => call[p].kind = "Close"
              /\ Done(p) => (Held(p) = {} /\ drvMutex # p))
    /\ <>AllDone

\* A Close that holds the registry lock and one record lock while the other
\* goroutine waits for that record.
C18_Witness ==
    \E p, q \in Callers :
        /\ p # q
        /\ call[p].kind = "Close" /\ drvMutex = p /\ Held(p) # {}
        /\ pc[q] = "loop" /\ next[q] \in Held(p)

\* The goroutines whose Close has passed its first statements.
Closing == {p \in Callers : call[p].kind = "Close" /\ pc[p] # "enter"}

\* C19: every Close decrements the open-connection count by exactly one and
\* removes the session from the registry exactly when the count reaches
\* zero, whatever the matching then yields (a Close rejected with an
\* UnexpectedKindError or a NoMatchError has decremented too), and holds
\* the registry lock from there until it returns.
C19_CloseRegistry ==
    /\ opened = NumCallers - Cardinality(Closing)
    /\ registered <=> opened > 0
    /\ \A p \in Closing : (drvMutex = p) <=> ~Done(p)

\* Every goroutine closed its connection, one of the Close calls was
\* rejected, and the session is no longer registered.
C19_Witness ==
    /\ AllDone /\ Closing = Callers
    /\ \E p \in Callers : ret[p].err \in {"UnexpectedKind", "NoMatch"}
    /\ opened = 0 /\ ~registered
====
